---- MODULE Spec2Model ----
(***************************************************************************)
(* Attendance-session lifecycle engine of backend/attendance: the session  *)
(* rows, the attendance ledger, the QR tokens, the request handlers of     *)
(* views.py and the auto-end scheduler of auto_end_scheduler.py.           *)
(*                                                                         *)
(* The handlers run without transactions or row locks (Django autocommit), *)
(* so every database statement of a handler is one atomic step and the     *)
(* model instances a handler holds are private snapshots of the rows.      *)
(* Time is counted in minutes.  Coordinates are counted in metres of arc   *)
(* around the classroom, where the haversine distance is the Euclidean one.*)
(***************************************************************************)
EXTENDS Integers, Sequences, FiniteSets, TLC

\* ---------------------------------------------------------------- bounds
\* the clock stops at MaxTime; at most MaxTokens tokens are issued; at most
\* MaxUsed verifications of one token succeed; a token lives TokenMinutes;
\* a cap an admin sets on a token is at most MaxUses; a session is scheduled
\* for ScheduledDuration minutes; an admin sets an ended session back to
\* active at most MaxReopens times
MaxTime == 2
MaxTokens == 2
MaxUsed == 2
TokenMinutes == 1
MaxUses == 1
ScheduledDuration == 1
MaxReopens == 1

\* ------------------------------------------------------- program constants
\* the smallest allowed_radius the validators accept, in metres
AllowedRadius == 10
\* float('inf'), the distance the view assumes for the (0, 0) sentinel
Infinity == 1000000

\* ------------------------------------------------------------- universe
Sessions == {1}
Students == {"s1", "s2"}
Workers == {"w1", "w2"}
Scheduler == "sched"
Procs == Workers \cup {Scheduler}
Null == -1

VARIABLES
    now,            \* timezone.now(), in minutes
    sessions,       \* table attendance_sessions: id -> row
    attendances,    \* table attendances: set of rows, keyed by id
    tokens,         \* table attendance_tokens: sequence of rows, id = index
    pc,             \* where each handler / the scheduler loop stands
    loc,            \* the local variables of each handler
    transitions,    \* history: per session, number of saves active -> ended
    backfills,      \* history: per session, number of absence backfills run
    notified,       \* history: per session, number of session_ended fan-outs
    verifiedOk,     \* history: per token, number of verify_token successes
    scheduler_running,  \* the module global _scheduler_running
    scheduler_thread,   \* the module global _scheduler_thread: 0 for None, else a thread
    loops,          \* where each thread that runs run_scheduler stands
    stopRequested,  \* history: stop_scheduler was called and no start followed
    failed          \* history: sessions whose end raised inside a scheduler pass

dbVars == <<sessions, attendances, tokens>>
histVars == <<transitions, backfills, notified, verifiedOk>>
schedVars == <<scheduler_running, scheduler_thread, loops, stopRequested, failed>>
vars == <<now, sessions, attendances, tokens, pc, loc,
          transitions, backfills, notified, verifiedOk,
          scheduler_running, scheduler_thread, loops, stopRequested, failed>>

\* ------------------------------------------------------------------ rows
NoRow == [id |-> 0]

NewSession(s, t) ==
    [id |-> s, status |-> "active", started_at |-> t, ended_at |-> Null,
     scheduled_duration |-> ScheduledDuration]

\* Enrollment.objects.filter(course=session.course, is_active=True), in table order
EnrolledSeq(s) == <<"s1">>

IsEnrolled(st, s) == \E i \in 1..Len(EnrolledSeq(s)) : EnrolledSeq(s)[i] = st

Idle ==
    [op |-> "none", sid |-> 0, student |-> "-", tid |-> 0, lat |-> 0, lon |-> 0,
     sess |-> NoRow, att |-> NoRow, tok |-> NoRow, created |-> FALSE,
     todo |-> <<>>, queue |-> <<>>, cur_time |-> 0,
     verified |-> FALSE, distance |-> 0]

\* ------------------------------------------------------ the attendance table
HasRow(rows, s, st) == \E r \in rows : r.session = s /\ r.student = st

GetRow(rows, s, st) == CHOOSE r \in rows : r.session = s /\ r.student = st

\* variant: the table has no unique constraint on (session, student)
NoUniqueConstraint(rows, s, st) == FALSE

\* unique_together = ['session', 'student']: the INSERT raises IntegrityError
UniqueViolation(rows, s, st) == HasRow(rows, s, st)

NextId(rows) == Cardinality(rows) + 1

\* Model.save() of a loaded instance: UPDATE ... WHERE id = pk, every column
SaveRow(rows, row) == {IF r.id = row.id THEN row ELSE r : r \in rows}

\* ------------------------------------------------------------ the session
\* variant: an end before the scheduled end is recorded as a cancellation
EndedRowEarlyCancel(snap, t) ==
    [snap EXCEPT !.status = IF t >= snap.started_at + snap.scheduled_duration
                              THEN "ended" ELSE "cancelled",
                 !.ended_at = t]

\* end_session: the two assignments before self.save()
EndedRow(snap, t) == [snap EXCEPT !.status = "ended", !.ended_at = t]

\* the defaults of backfill's get_or_create
AbsentDefaults(id, s, st) ==
    [id |-> id, session |-> s, student |-> st, is_present |-> FALSE,
     status |-> "absent", location_verified |-> FALSE, distance |-> Null,
     lat |-> Null, lon |-> Null, marked_at |-> Null]

\* the pc a finished end_session returns to
\* ------------------------------------------------------ scheduler threads
MaxLoops == 3
Loops == 1..MaxLoops

\* AttendanceConfig.ready has called start_scheduler_thread(60) once and the
\* thread has run its initial pass
SchedulerStarted ==
    /\ scheduler_running = TRUE
    /\ scheduler_thread = 1
    /\ loops = [t \in Loops |-> IF t = 1 THEN "sleep" ELSE "none"]
    /\ stopRequested = FALSE
    /\ failed = {}

AfterEnd(p) == IF p = Scheduler THEN "s_notify" ELSE "resp_ended"

Init ==
    /\ now = 0
    /\ sessions = [s \in Sessions |-> NewSession(s, 0)]
    /\ attendances = {}
    /\ tokens = <<>>
    /\ pc = [p \in Procs |-> IF p = Scheduler THEN "s_sleep" ELSE "idle"]
    /\ loc = [p \in Procs |-> Idle]
    /\ SchedulerStarted
    /\ transitions = [s \in Sessions |-> 0]
    /\ backfills = [s \in Sessions |-> 0]
    /\ notified = [s \in Sessions |-> 0]
    /\ verifiedOk = <<>>

\* ------------------------------------------------------------------ time
Tick ==
    /\ now < MaxTime
    /\ now' = now + 1
    /\ UNCHANGED <<dbVars, pc, loc, histVars, schedVars>>

\* a handler has answered: the request is over
Return(p) ==
    /\ pc[p] \in {"resp_ended", "resp_NotActive", "resp_marked", "resp_AlreadyMarked",
                  "resp_NotEnrolled", "resp_InvalidToken", "resp_issued"}
    /\ pc' = [pc EXCEPT ![p] = "idle"]
    /\ loc' = [loc EXCEPT ![p] = Idle]
    /\ UNCHANGED <<now, dbVars, histVars, schedVars>>

\* ------------------------------------------------- end_attendance_session
\* the view loads the session and answers 400 unless its status is active
EndRequest(p, s) ==
    /\ pc[p] = "idle"
    /\ IF sessions[s].status # "active"
         THEN /\ pc' = [pc EXCEPT ![p] = "resp_NotActive"]
              /\ loc' = [loc EXCEPT ![p] = [Idle EXCEPT !.op = "end", !.sid = s]]
         ELSE /\ pc' = [pc EXCEPT ![p] = "es_save"]
              /\ loc' = [loc EXCEPT ![p] =
                            [Idle EXCEPT !.op = "end", !.sid = s, !.sess = sessions[s]]]
    /\ UNCHANGED <<now, dbVars, histVars, schedVars>>

\* AttendanceSession.end_session on the instance the caller holds
EndSessionSave(p) ==
    /\ pc[p] = "es_save"
    /\ LET snap == loc[p].sess IN
       IF snap.status = "active"
         THEN /\ sessions' = [sessions EXCEPT ![snap.id] = EndedRow(snap, now)]
              /\ transitions' = [transitions EXCEPT ![snap.id] = @ + 1]
              /\ backfills' = [backfills EXCEPT ![snap.id] = @ + 1]
              /\ loc' = [loc EXCEPT ![p].sess = EndedRow(snap, now),
                                    ![p].sid = snap.id,
                                    ![p].todo = EnrolledSeq(snap.id)]
              /\ pc' = [pc EXCEPT ![p] = "bf_get"]
         ELSE /\ pc' = [pc EXCEPT ![p] = AfterEnd(p)]
              /\ UNCHANGED <<sessions, transitions, backfills, loc>>
    /\ UNCHANGED <<now, attendances, tokens, notified, verifiedOk, schedVars>>

\* mark_unmarked_students_as_absent: the SELECT of get_or_create
BackfillGet(p) ==
    /\ pc[p] = "bf_get"
    /\ IF loc[p].todo = <<>>
         THEN /\ pc' = [pc EXCEPT ![p] = AfterEnd(p)]
              /\ loc' = [loc EXCEPT ![p].att = NoRow, ![p].created = FALSE]
         ELSE LET st == Head(loc[p].todo) IN
              IF HasRow(attendances, loc[p].sid, st)
                THEN LET r == GetRow(attendances, loc[p].sid, st) IN
                     IF r.is_present
                       THEN /\ loc' = [loc EXCEPT ![p].todo = Tail(@)]
                            /\ pc' = pc
                       ELSE /\ loc' = [loc EXCEPT ![p].att = r, ![p].created = FALSE]
                            /\ pc' = [pc EXCEPT ![p] = "bf_save"]
                ELSE /\ pc' = [pc EXCEPT ![p] = "bf_create"]
                     /\ loc' = loc
    /\ UNCHANGED <<now, dbVars, histVars, schedVars>>

\* mark_unmarked_students_as_absent: the INSERT of get_or_create, or its
\* second SELECT after an IntegrityError
BackfillCreate(p) ==
    /\ pc[p] = "bf_create"
    /\ LET st == Head(loc[p].todo)
           s == loc[p].sid IN
       IF UniqueViolation(attendances, s, st)
         THEN LET r == GetRow(attendances, s, st) IN
              /\ attendances' = attendances
              /\ IF r.is_present
                   THEN /\ loc' = [loc EXCEPT ![p].todo = Tail(@)]
                        /\ pc' = [pc EXCEPT ![p] = "bf_get"]
                   ELSE /\ loc' = [loc EXCEPT ![p].att = r, ![p].created = FALSE]
                        /\ pc' = [pc EXCEPT ![p] = "bf_save"]
         ELSE LET r == AbsentDefaults(NextId(attendances), s, st) IN
              /\ attendances' = attendances \cup {r}
              /\ loc' = [loc EXCEPT ![p].att = r, ![p].created = TRUE]
              /\ pc' = [pc EXCEPT ![p] = "bf_save"]
    /\ UNCHANGED <<now, sessions, tokens, histVars, schedVars>>

\* mark_unmarked_students_as_absent: attendance.save() of the instance in hand
BackfillSave(p) ==
    /\ pc[p] = "bf_save"
    /\ attendances' = SaveRow(attendances,
                         [loc[p].att EXCEPT !.is_present = FALSE, !.status = "absent"])
    /\ loc' = [loc EXCEPT ![p].todo = Tail(@), ![p].att = NoRow, ![p].created = FALSE]
    /\ pc' = [pc EXCEPT ![p] = "bf_get"]
    /\ UNCHANGED <<now, sessions, tokens, histVars, schedVars>>

\* ----------------------------------------------- auto_end_expired_sessions
\* active_sessions.exists() and current_time = timezone.now()
SchedBegin ==
    /\ pc[Scheduler] = "s_sleep"
    /\ IF \E s \in DOMAIN sessions : sessions[s].status = "active"
         THEN /\ pc' = [pc EXCEPT ![Scheduler] = "s_fetch"]
              /\ loc' = [loc EXCEPT ![Scheduler] =
                            [Idle EXCEPT !.op = "sched", !.cur_time = now]]
         ELSE UNCHANGED <<pc, loc>>
    /\ UNCHANGED <<now, dbVars, histVars, schedVars>>

RECURSIVE RowsOf(_, _)
RowsOf(tbl, ids) ==
    IF ids = {} THEN <<>>
    ELSE LET s == CHOOSE x \in ids : \A y \in ids : x <= y IN
         <<tbl[s]>> \o RowsOf(tbl, ids \ {s})

\* AttendanceSession.objects.filter(status='active'), evaluated by the for loop
ActiveSessions(tbl) == RowsOf(tbl, {s \in DOMAIN tbl : tbl[s].status = "active"})

SchedFetch ==
    /\ pc[Scheduler] = "s_fetch"
    /\ loc' = [loc EXCEPT ![Scheduler].queue = ActiveSessions(sessions)]
    /\ pc' = [pc EXCEPT ![Scheduler] = "s_iter"]
    /\ UNCHANGED <<now, dbVars, histVars, schedVars>>

\* variant: due one minute before the scheduled end
IsDueEarly(snap, t) == t + 1 >= snap.started_at + snap.scheduled_duration

\* variant: strictly past the scheduled end
IsDueStrict(snap, t) == t > snap.started_at + snap.scheduled_duration

\* current_time >= scheduled_end_time
IsDue(snap, t) == t >= snap.started_at + snap.scheduled_duration

\* one turn of `for session in active_sessions`
SchedIter ==
    /\ pc[Scheduler] = "s_iter"
    /\ IF loc[Scheduler].queue = <<>>
         THEN /\ pc' = [pc EXCEPT ![Scheduler] = "s_sleep"]
              /\ loc' = [loc EXCEPT ![Scheduler] = Idle]
         ELSE LET snap == Head(loc[Scheduler].queue) IN
              /\ loc' = [loc EXCEPT ![Scheduler].queue = Tail(@),
                                    ![Scheduler].sess = snap,
                                    ![Scheduler].sid = snap.id]
              /\ pc' = [pc EXCEPT ![Scheduler] =
                           IF IsDue(snap, loc[Scheduler].cur_time) THEN "es_save" ELSE "s_iter"]
    /\ UNCHANGED <<now, dbVars, histVars, schedVars>>

\* websocket_service.send_session_ended_notification to the enrolled students
SchedNotify ==
    /\ pc[Scheduler] = "s_notify"
    /\ notified' = [notified EXCEPT ![loc[Scheduler].sid] = @ + 1]
    /\ pc' = [pc EXCEPT ![Scheduler] = "s_iter"]
    /\ loc' = [loc EXCEPT ![Scheduler].sess = NoRow, ![Scheduler].sid = 0]
    /\ UNCHANGED <<now, dbVars, transitions, backfills, verifiedOk, schedVars>>

\* ------------------------------------------- failures inside a scheduler pass
EndPcs == {"es_save", "bf_get", "bf_create", "bf_save"}

\* variant: the exception leaves the for loop and ends the pass
SchedEndFailsAborts ==
    /\ pc[Scheduler] \in EndPcs
    /\ failed' = failed \cup {loc[Scheduler].sid}
    /\ pc' = [pc EXCEPT ![Scheduler] = "s_sleep"]
    /\ loc' = [loc EXCEPT ![Scheduler] = Idle]
    /\ UNCHANGED <<now, dbVars, histVars,
                   scheduler_running, scheduler_thread, loops, stopRequested>>

\* a statement of session.end_session() raises: `except Exception` of the for
\* body logs it and the loop takes the next session
SchedEndFails ==
    /\ pc[Scheduler] \in EndPcs
    /\ failed' = failed \cup {loc[Scheduler].sid}
    /\ pc' = [pc EXCEPT ![Scheduler] = "s_iter"]
    /\ loc' = [loc EXCEPT ![Scheduler].sess = NoRow, ![Scheduler].sid = 0,
                          ![Scheduler].todo = <<>>, ![Scheduler].att = NoRow,
                          ![Scheduler].created = FALSE]
    /\ UNCHANGED <<now, dbVars, histVars,
                   scheduler_running, scheduler_thread, loops, stopRequested>>

\* variant: the exception of the notification ends the pass
SchedNotifyFailsAborts ==
    /\ pc[Scheduler] = "s_notify"
    /\ pc' = [pc EXCEPT ![Scheduler] = "s_sleep"]
    /\ loc' = [loc EXCEPT ![Scheduler] = Idle]
    /\ UNCHANGED <<now, dbVars, histVars, schedVars>>

\* the enrolment query or the channel layer raises: the try around the
\* notification (and the one inside the service) logs it, ended_count += 1
SchedNotifyFails ==
    /\ pc[Scheduler] = "s_notify"
    /\ pc' = [pc EXCEPT ![Scheduler] = "s_iter"]
    /\ loc' = [loc EXCEPT ![Scheduler].sess = NoRow, ![Scheduler].sid = 0]
    /\ UNCHANGED <<now, dbVars, histVars, schedVars>>

\* ------------------------------------------------------------ geofence
ClassroomLat(s) == 0
ClassroomLon(s) == 0

\* the coordinate pairs a student submits
Coords == {<<0, 0>>, <<6, 8>>, <<9, 12>>}

\* the pairs of the location view: also a point on the classroom's parallel,
\* 5 m east of it, whose latitude is 0 without being the (0, 0) sentinel
MarkCoords == Coords \cup {<<0, 5>>}

RECURSIVE RootFrom(_, _)
RootFrom(n, k) == IF (k + 1) * (k + 1) > n THEN k ELSE RootFrom(n, k + 1)

\* calculate_distance: R * c of the haversine formula, in metres
calculate_distance(lat1, lon1, lat2, lon2) ==
    RootFrom((lat2 - lat1) * (lat2 - lat1) + (lon2 - lon1) * (lon2 - lon1), 0)

\* distance <= session.allowed_radius
WithinRadius(d, r) == d <= r

\* ---------------------------------------------------------- mark_attendance
\* variant: (0, 0) is treated as a position like any other
NoLocationIgnored(lat, lon) == FALSE

\* `if student_lat == 0 and student_lon == 0`: no location was obtained
NoLocation(lat, lon) == lat = 0 /\ lon = 0

\* the distance of the response: -1 stands for float('inf')
ResponseDistance(d) == IF d # Infinity THEN d ELSE -1

\* the view up to the distance computation: session, enrolment, geofence
MarkRequest(p, st, s, lat, lon) ==
    /\ pc[p] = "idle"
    /\ LET me == [Idle EXCEPT !.op = "mark", !.sid = s, !.student = st,
                              !.lat = lat, !.lon = lon]
           d == IF NoLocation(lat, lon) THEN Infinity
                ELSE calculate_distance(ClassroomLat(s), ClassroomLon(s), lat, lon)
           v == IF NoLocation(lat, lon) THEN FALSE ELSE WithinRadius(d, AllowedRadius)
       IN
       IF sessions[s].status # "active"
         THEN /\ pc' = [pc EXCEPT ![p] = "resp_NotActive"]
              /\ loc' = [loc EXCEPT ![p] = me]
         ELSE IF ~IsEnrolled(st, s)
           THEN /\ pc' = [pc EXCEPT ![p] = "resp_NotEnrolled"]
                /\ loc' = [loc EXCEPT ![p] = me]
           ELSE /\ pc' = [pc EXCEPT ![p] = "m_get"]
                /\ loc' = [loc EXCEPT ![p] = [me EXCEPT !.distance = d, !.verified = v]]
    /\ UNCHANGED <<now, dbVars, histVars, schedVars>>

\* `if not created and attendance.is_present`
AlreadyMarked(row, created) == ~created /\ row.is_present

\* Attendance.objects.get_or_create: the SELECT
MarkGet(p) ==
    /\ pc[p] = "m_get"
    /\ IF HasRow(attendances, loc[p].sid, loc[p].student)
         THEN LET r == GetRow(attendances, loc[p].sid, loc[p].student) IN
              IF AlreadyMarked(r, FALSE)
                THEN /\ pc' = [pc EXCEPT ![p] = "resp_AlreadyMarked"]
                     /\ loc' = loc
                ELSE /\ pc' = [pc EXCEPT ![p] = "m_mark"]
                     /\ loc' = [loc EXCEPT ![p].att = r, ![p].created = FALSE]
         ELSE /\ pc' = [pc EXCEPT ![p] = "m_create"]
              /\ loc' = loc
    /\ UNCHANGED <<now, dbVars, histVars, schedVars>>

\* Attendance.objects.get_or_create: the INSERT, or the SELECT after IntegrityError
MarkCreate(p) ==
    /\ pc[p] = "m_create"
    /\ LET s == loc[p].sid
           st == loc[p].student IN
       IF UniqueViolation(attendances, s, st)
         THEN LET r == GetRow(attendances, s, st) IN
              /\ attendances' = attendances
              /\ IF AlreadyMarked(r, FALSE)
                   THEN /\ pc' = [pc EXCEPT ![p] = "resp_AlreadyMarked"]
                        /\ loc' = loc
                   ELSE /\ pc' = [pc EXCEPT ![p] = "m_mark"]
                        /\ loc' = [loc EXCEPT ![p].att = r, ![p].created = FALSE]
         ELSE LET r == AbsentDefaults(NextId(attendances), s, st) IN
              /\ attendances' = attendances \cup {r}
              /\ loc' = [loc EXCEPT ![p].att = r, ![p].created = TRUE]
              /\ pc' = [pc EXCEPT ![p] = "m_mark"]
    /\ UNCHANGED <<now, sessions, tokens, histVars, schedVars>>

\* variant: the mark does not stamp the time
MarkedPresentNoStamp(row, lat, lon, verified, d, t) ==
    LET r == [row EXCEPT !.is_present = TRUE, !.status = "present"] IN
    IF lat # 0 /\ lon # 0
      THEN [r EXCEPT !.lat = lat, !.lon = lon, !.location_verified = verified,
                     !.distance = d]
      ELSE r

\* Attendance.mark_attendance: the instance after its assignments
MarkedPresent(row, lat, lon, verified, d, t) ==
    LET r == [row EXCEPT !.is_present = TRUE, !.status = "present", !.marked_at = t] IN
    IF lat # 0 /\ lon # 0
      THEN [r EXCEPT !.lat = lat, !.lon = lon, !.location_verified = verified,
                     !.distance = d]
      ELSE r

\* attendance.mark_attendance(...): assignments and self.save()
MarkSavePresent(p) ==
    /\ pc[p] = "m_mark"
    /\ LET r == MarkedPresent(loc[p].att, loc[p].lat, loc[p].lon, loc[p].verified,
                              loc[p].distance, now) IN
       /\ attendances' = SaveRow(attendances, r)
       /\ loc' = [loc EXCEPT ![p].att = r]
    /\ pc' = [pc EXCEPT ![p] = "m_final"]
    /\ UNCHANGED <<now, sessions, tokens, histVars, schedVars>>

\* variant: an unverified mark resets the status only
FinalStatusKeepsFlag(row, verified) ==
    IF verified THEN [row EXCEPT !.status = "present"]
    ELSE [row EXCEPT !.status = "absent"]

\* "Update status based on location verification"
FinalStatus(row, verified) ==
    IF verified THEN [row EXCEPT !.status = "present"]
    ELSE [row EXCEPT !.status = "absent", !.is_present = FALSE]

\* the view's second attendance.save() and its 200 response
MarkSaveFinal(p) ==
    /\ pc[p] = "m_final"
    /\ LET r == FinalStatus(loc[p].att, loc[p].verified) IN
       /\ attendances' = SaveRow(attendances, r)
       /\ loc' = [loc EXCEPT ![p].att = r]
    /\ pc' = [pc EXCEPT ![p] = "resp_marked"]
    /\ UNCHANGED <<now, sessions, tokens, histVars, schedVars>>

MarkAttendance(p) ==
    \/ MarkGet(p)
    \/ MarkCreate(p)
    \/ MarkSavePresent(p)
    \/ MarkSaveFinal(p)

\* ------------------------------------------------------------------ tokens
\* variant: the token is already expired at its expires_at
IsExpiredAtDeadline(tok, t) == t >= tok.expires_at

\* AttendanceToken.is_expired
IsExpired(tok, t) == t > tok.expires_at

\* AttendanceToken.is_valid
IsValid(tok, t) ==
    IF ~tok.is_active \/ IsExpired(tok, t) THEN FALSE
    ELSE IF tok.max_uses > 0 /\ tok.used_count >= tok.max_uses THEN FALSE
    ELSE TRUE

\* generate_qr_token_view: the session is loaded and must be active
IssueRequest(p, s) ==
    /\ pc[p] = "idle"
    /\ Len(tokens) < MaxTokens
    /\ IF sessions[s].status # "active"
         THEN /\ pc' = [pc EXCEPT ![p] = "resp_NotActive"]
              /\ loc' = [loc EXCEPT ![p] = [Idle EXCEPT !.op = "issue", !.sid = s]]
         ELSE /\ pc' = [pc EXCEPT ![p] = "i_create"]
              /\ loc' = [loc EXCEPT ![p] = [Idle EXCEPT !.op = "issue", !.sid = s]]
    /\ UNCHANGED <<now, dbVars, histVars, schedVars>>

\* generate_token: AttendanceToken.objects.create(..., max_uses=0)
NewToken(id, s, t, minutes) ==
    [id |-> id, session |-> s, expires_at |-> t + minutes, is_active |-> TRUE,
     used_count |-> 0, max_uses |-> 0]

IssueCreate(p) ==
    /\ pc[p] = "i_create"
    /\ Len(tokens) < MaxTokens
    /\ tokens' = Append(tokens, NewToken(Len(tokens) + 1, loc[p].sid, now, TokenMinutes))
    /\ verifiedOk' = Append(verifiedOk, 0)
    /\ loc' = [loc EXCEPT ![p].tid = Len(tokens) + 1]
    /\ pc' = [pc EXCEPT ![p] = "resp_issued"]
    /\ UNCHANGED <<now, sessions, attendances, transitions, backfills, notified, schedVars>>

\* refresh_qr_token_view: the session is loaded, its status is not looked at;
\* refresh_token looks the old token up if one was given (0: none given)
RefreshRequest(p, s, old) ==
    /\ pc[p] = "idle"
    /\ Len(tokens) < MaxTokens
    /\ old \in 0..Len(tokens)
    /\ LET me == [Idle EXCEPT !.op = "refresh", !.sid = s, !.tid = old,
                              !.sess = sessions[s]] IN
       IF old = 0
         THEN /\ pc' = [pc EXCEPT ![p] = "i_create"]
              /\ loc' = [loc EXCEPT ![p] = me]
         ELSE /\ pc' = [pc EXCEPT ![p] = "r_deact"]
              /\ loc' = [loc EXCEPT ![p] = [me EXCEPT !.tok = tokens[old]]]
    /\ UNCHANGED <<now, dbVars, histVars, schedVars>>

\* variant: refresh_token leaves the old token as it is
RefreshDeactivateSkipped(p) ==
    /\ pc[p] = "r_deact"
    /\ pc' = [pc EXCEPT ![p] = "i_create"]
    /\ UNCHANGED <<now, dbVars, loc, histVars, schedVars>>

\* AttendanceToken.deactivate on the old token:
\* self.is_active = False; self.save(update_fields=['is_active'])
RefreshDeactivate(p) ==
    /\ pc[p] = "r_deact"
    /\ tokens' = [tokens EXCEPT ![loc[p].tid].is_active = FALSE]
    /\ loc' = [loc EXCEPT ![p].tok.is_active = FALSE]
    /\ pc' = [pc EXCEPT ![p] = "i_create"]
    /\ UNCHANGED <<now, sessions, attendances, histVars, schedVars>>

\* verify_qr_token_view up to verify_token's is_valid check; secret 0 is a
\* string no stored token_hash matches
QrRequest(p, st, tid, lat, lon) ==
    /\ pc[p] = "idle"
    /\ tid \in 0..Len(tokens)
    /\ tid # 0 => verifiedOk[tid] < MaxUsed
    /\ LET me == [Idle EXCEPT !.op = "qr", !.student = st, !.tid = tid,
                              !.lat = lat, !.lon = lon] IN
       IF tid = 0
         THEN /\ pc' = [pc EXCEPT ![p] = "resp_InvalidToken"]
              /\ loc' = [loc EXCEPT ![p] = me]
         ELSE IF ~IsValid(tokens[tid], now)
           THEN /\ pc' = [pc EXCEPT ![p] = "resp_InvalidToken"]
                /\ loc' = [loc EXCEPT ![p] = me]
           ELSE /\ pc' = [pc EXCEPT ![p] = "q_used"]
                /\ loc' = [loc EXCEPT ![p] = [me EXCEPT !.tok = tokens[tid]]]
    /\ UNCHANGED <<now, dbVars, histVars, schedVars>>

\* AttendanceToken.mark_used on the instance verify_token loaded:
\* self.used_count += 1; self.save(update_fields=['used_count'])
UsedCountAfter(tok) == tok.used_count + 1

QrMarkUsed(p) ==
    /\ pc[p] = "q_used"
    /\ tokens' = [tokens EXCEPT ![loc[p].tid].used_count = UsedCountAfter(loc[p].tok)]
    /\ verifiedOk' = [verifiedOk EXCEPT ![loc[p].tid] = @ + 1]
    /\ loc' = [loc EXCEPT ![p].tok.used_count = UsedCountAfter(loc[p].tok)]
    /\ pc' = [pc EXCEPT ![p] = "q_load"]
    /\ UNCHANGED <<now, sessions, attendances, transitions, backfills, notified, schedVars>>

\* the view after verify_token returned the payload: session, enrolment, geofence
QrLoad(p) ==
    /\ pc[p] = "q_load"
    /\ LET s == loc[p].tok.session
           lat == loc[p].lat
           lon == loc[p].lon
           located == lat # 0 /\ lon # 0
           d == IF located
                  THEN calculate_distance(ClassroomLat(s), ClassroomLon(s), lat, lon)
                  ELSE 0
           v == IF located THEN WithinRadius(d, AllowedRadius) ELSE TRUE
       IN
       IF sessions[s].status # "active"
         THEN /\ pc' = [pc EXCEPT ![p] = "resp_NotActive"]
              /\ loc' = [loc EXCEPT ![p].sid = s]
         ELSE IF ~IsEnrolled(loc[p].student, s)
           THEN /\ pc' = [pc EXCEPT ![p] = "resp_NotEnrolled"]
                /\ loc' = [loc EXCEPT ![p].sid = s]
           ELSE /\ pc' = [pc EXCEPT ![p] = "q_get"]
                /\ loc' = [loc EXCEPT ![p].sid = s, ![p].distance = d, ![p].verified = v]
    /\ UNCHANGED <<now, dbVars, histVars, schedVars>>

\* Attendance.objects.get_or_create of the QR view: the SELECT
QrGet(p) ==
    /\ pc[p] = "q_get"
    /\ IF HasRow(attendances, loc[p].sid, loc[p].student)
         THEN /\ pc' = [pc EXCEPT ![p] = "q_update"]
              /\ loc' = [loc EXCEPT ![p].att =
                            GetRow(attendances, loc[p].sid, loc[p].student),
                                    ![p].created = FALSE]
         ELSE /\ pc' = [pc EXCEPT ![p] = "q_create"]
              /\ loc' = loc
    /\ UNCHANGED <<now, dbVars, histVars, schedVars>>

\* the defaults of the QR view's get_or_create
PresentDefaults(id, s, st, lat, lon, verified, d, t) ==
    [id |-> id, session |-> s, student |-> st, is_present |-> TRUE,
     status |-> "present", location_verified |-> verified,
     distance |-> IF d > 0 THEN d ELSE Null,
     lat |-> IF lat # 0 THEN lat ELSE Null,
     lon |-> IF lon # 0 THEN lon ELSE Null,
     marked_at |-> t]

\* Attendance.objects.get_or_create of the QR view: the INSERT, or the SELECT
\* after an IntegrityError
QrCreate(p) ==
    /\ pc[p] = "q_create"
    /\ LET s == loc[p].sid
           st == loc[p].student IN
       IF UniqueViolation(attendances, s, st)
         THEN /\ attendances' = attendances
              /\ loc' = [loc EXCEPT ![p].att = GetRow(attendances, s, st),
                                    ![p].created = FALSE]
              /\ pc' = [pc EXCEPT ![p] = "q_update"]
         ELSE LET r == PresentDefaults(NextId(attendances), s, st, loc[p].lat,
                                       loc[p].lon, loc[p].verified, loc[p].distance, now) IN
              /\ attendances' = attendances \cup {r}
              /\ loc' = [loc EXCEPT ![p].att = r, ![p].created = TRUE]
              /\ pc' = [pc EXCEPT ![p] = "resp_marked"]
    /\ UNCHANGED <<now, sessions, tokens, histVars, schedVars>>

\* variant: the update counts the student present only inside the radius
QrUpdatedGated(row, lat, lon, verified, d, t) ==
    [row EXCEPT !.is_present = verified,
                !.status = IF verified THEN "present" ELSE "absent",
                !.location_verified = verified, !.marked_at = t]

\* "Update existing attendance": the instance after the assignments
QrUpdated(row, lat, lon, verified, d, t) ==
    LET r1 == [row EXCEPT !.is_present = TRUE, !.status = "present",
                          !.location_verified = verified, !.marked_at = t]
        r2 == IF lat # 0 THEN [r1 EXCEPT !.lat = lat, !.lon = lon] ELSE r1
    IN IF d > 0 THEN [r2 EXCEPT !.distance = d] ELSE r2

\* attendance.save() of the existing row
QrUpdate(p) ==
    /\ pc[p] = "q_update"
    /\ LET r == QrUpdated(loc[p].att, loc[p].lat, loc[p].lon, loc[p].verified,
                          loc[p].distance, now) IN
       /\ attendances' = SaveRow(attendances, r)
       /\ loc' = [loc EXCEPT ![p].att = r]
    /\ pc' = [pc EXCEPT ![p] = "resp_marked"]
    /\ UNCHANGED <<now, sessions, tokens, histVars, schedVars>>

VerifyQrToken(p) ==
    \/ QrMarkUsed(p)
    \/ QrLoad(p)
    \/ QrGet(p)
    \/ QrCreate(p)
    \/ QrUpdate(p)

\* ------------------------------------------------------------------- admin
\* AttendanceSessionAdmin's change form: status is an editable choice field,
\* ended_at is read-only, so the saved row keeps the ended_at it had
AdminSetStatus(s, st) ==
    /\ sessions[s].status # st
    /\ st = "active" => transitions[s] <= MaxReopens
    /\ sessions' = [sessions EXCEPT ![s].status = st]
    /\ UNCHANGED <<now, attendances, tokens, pc, loc, histVars, schedVars>>

\* AttendanceTokenAdmin's change form: is_active is an editable field
AdminSetTokenActive(tid, a) ==
    /\ tid \in 1..Len(tokens)
    /\ tokens[tid].is_active # a
    /\ tokens' = [tokens EXCEPT ![tid].is_active = a]
    /\ UNCHANGED <<now, sessions, attendances, pc, loc, histVars, schedVars>>

EndSession(p) ==
    \/ EndSessionSave(p)
    \/ BackfillGet(p)
    \/ BackfillCreate(p)
    \/ BackfillSave(p)

SchedulerStep ==
    \/ SchedBegin
    \/ SchedFetch
    \/ SchedIter
    \/ SchedNotify
    \/ EndSession(Scheduler)

Returns == \E p \in Workers : Return(p)

EndOps ==
    \/ \E p \in Workers, s \in Sessions : EndRequest(p, s)
    \/ \E p \in Workers : EndSession(p)

MarkOps(C) ==
    \/ \E p \in Workers, st \in Students, s \in Sessions, c \in C :
          MarkRequest(p, st, s, c[1], c[2])
    \/ \E p \in Workers : MarkAttendance(p)

IssueOps ==
    \/ \E p \in Workers, s \in Sessions : IssueRequest(p, s)
    \/ \E p \in Workers : IssueCreate(p)

RefreshOps ==
    \/ \E p \in Workers, s \in Sessions, old \in 0..MaxTokens : RefreshRequest(p, s, old)
    \/ \E p \in Workers : RefreshDeactivate(p)

QrOps(C) ==
    \/ \E p \in Workers, st \in Students, tid \in 0..MaxTokens, c \in C :
          QrRequest(p, st, tid, c[1], c[2])
    \/ \E p \in Workers : VerifyQrToken(p)

AdminOps ==
    \E s \in Sessions, st \in {"active", "ended", "cancelled"} : AdminSetStatus(s, st)

AdminTokenOps ==
    \E tid \in 1..MaxTokens, a \in BOOLEAN : AdminSetTokenActive(tid, a)

Next ==
    \/ Tick
    \/ AdminOps
    \/ AdminTokenOps
    \/ Returns
    \/ EndOps
    \/ SchedulerStep
    \/ MarkOps(Coords)
    \/ IssueOps
    \/ RefreshOps
    \/ QrOps(Coords)

Spec == Init /\ [][Next]_vars

\* ------------------------------------------------------- the session close
\* the session as created, or created and then cancelled in the admin
\* (AttendanceSessionAdmin: status is editable, ended_at is read-only)
InitSession ==
    /\ now = 0
    /\ \E st \in {"active", "cancelled"} :
          sessions = [s \in Sessions |-> [NewSession(s, 0) EXCEPT !.status = st]]
    /\ attendances = {}
    /\ tokens = <<>>
    /\ pc = [p \in Procs |-> IF p = Scheduler THEN "s_sleep" ELSE "idle"]
    /\ loc = [p \in Procs |-> Idle]
    /\ SchedulerStarted
    /\ transitions = [s \in Sessions |-> 0]
    /\ backfills = [s \in Sessions |-> 0]
    /\ notified = [s \in Sessions |-> 0]
    /\ verifiedOk = <<>>

\* end requests, scheduler passes and location marks inside the radius
NextSession == Tick \/ Returns \/ EndOps \/ SchedulerStep \/ MarkOps({<<6, 8>>})
SpecSession == InitSession /\ [][NextSession]_vars

\* a handler that has started runs to its response; the scheduler thread runs
Running(p) == EndSession(p) \/ MarkAttendance(p) \/ Return(p)
SpecSessionFair ==
    /\ SpecSession
    /\ WF_vars(SchedulerStep)
    /\ \A p \in Workers : WF_vars(Running(p))

\* --------------------------------------------------------------- the ledger
\* the state in which the teacher has requested one QR code, which an admin
\* may have capped (AttendanceTokenAdmin: max_uses is an editable field)
InitIssued ==
    /\ now = 0
    /\ sessions = [s \in Sessions |-> NewSession(s, 0)]
    /\ attendances = {}
    /\ \E m \in 0..MaxUses :
          tokens = <<[NewToken(1, 1, 0, TokenMinutes) EXCEPT !.max_uses = m]>>
    /\ pc = [p \in Procs |-> IF p = Scheduler THEN "s_sleep" ELSE "idle"]
    /\ loc = [p \in Procs |-> Idle]
    /\ SchedulerStarted
    /\ transitions = [s \in Sessions |-> 0]
    /\ backfills = [s \in Sessions |-> 0]
    /\ notified = [s \in Sessions |-> 0]
    /\ verifiedOk = <<0>>

\* marking by location and by token against the session close
NextLedger == Returns \/ EndOps \/ MarkOps(Coords) \/ QrOps(Coords)
SpecLedger == InitIssued /\ [][NextLedger]_vars

\* --------------------------------------------------------------- the tokens
\* verification of the issued token, the session close, time
NextToken == Tick \/ Returns \/ QrOps({<<0, 0>>}) \/ EndOps
SpecToken == InitIssued /\ [][NextToken]_vars

\* ---------------------------------------------------------------- the admin
\* end requests against status edits made in the admin
NextAdmin == Tick \/ Returns \/ EndOps \/ AdminOps
SpecAdmin == Init /\ [][NextAdmin]_vars

\* ------------------------------------------------------------- the issuing
\* issue and refresh of tokens against the session close
NextIssue == Returns \/ EndOps \/ IssueOps \/ RefreshOps
SpecIssue == Init /\ [][NextIssue]_vars

\* ---------------------------------------------------------- the verification
\* verification of a token that expires and that an admin deactivates
NextVerify == Tick \/ Returns \/ AdminTokenOps \/ QrOps({<<0, 0>>})
SpecVerify == InitIssued /\ [][NextVerify]_vars

\* ------------------------------------------------------- the location marks
\* location marks alone against the session close: every present row is the
\* work of mark_attendance
NextMark == Returns \/ EndOps \/ MarkOps(MarkCoords)
SpecMark == Init /\ [][NextMark]_vars

\* -------------------------------------------------------------- the rotation
\* the teacher (w1) refreshes the QR code while a student (w2) presents tokens
RotateOps ==
    \/ \E s \in Sessions, old \in 0..MaxTokens : RefreshRequest("w1", s, old)
    \/ RefreshDeactivate("w1")
    \/ IssueCreate("w1")
    \/ \E tid \in 0..MaxTokens : QrRequest("w2", "s1", tid, 0, 0)
    \/ VerifyQrToken("w2")

NextRotate == Tick \/ Returns \/ RotateOps
SpecRotate == InitIssued /\ [][NextRotate]_vars

\* ------------------------------------------------------- the foreign token
\* a session of another course, and the state in which its teacher has
\* requested a QR code for it
OtherSession == 2

InitForeign ==
    /\ now = 0
    /\ sessions = [s \in Sessions \cup {OtherSession} |-> NewSession(s, 0)]
    /\ attendances = {}
    /\ tokens = <<NewToken(1, OtherSession, 0, TokenMinutes)>>
    /\ pc = [p \in Procs |-> IF p = Scheduler THEN "s_sleep" ELSE "idle"]
    /\ loc = [p \in Procs |-> Idle]
    /\ SchedulerStarted
    /\ transitions = [s \in Sessions \cup {OtherSession} |-> 0]
    /\ backfills = [s \in Sessions \cup {OtherSession} |-> 0]
    /\ notified = [s \in Sessions \cup {OtherSession} |-> 0]
    /\ verifiedOk = <<0>>

\* issue and refresh for session 1 while the other session's token exists
NextForeign == Tick \/ Returns \/ IssueOps \/ RefreshOps
SpecForeign == InitForeign /\ [][NextForeign]_vars

\* ------------------------------------------- start, stop and run_scheduler
\* Thread.is_alive(): started and run_scheduler has not returned
Alive(t) == t # 0 /\ loops[t] \notin {"none", "done"}

HasFresh == \E t \in Loops : loops[t] = "none"
FreshLoop == CHOOSE t \in Loops : loops[t] = "none" /\ \A u \in Loops : loops[u] = "none" => t <= u

\* start_scheduler_thread: returns early when the flag is set and the thread
\* it remembers is alive, else sets the flag and starts a new thread
StartSchedulerThread ==
    /\ HasFresh
    /\ IF scheduler_running /\ scheduler_thread # 0 /\ Alive(scheduler_thread)
         THEN UNCHANGED <<scheduler_running, scheduler_thread, loops>>
         ELSE /\ scheduler_running' = TRUE
              /\ scheduler_thread' = FreshLoop
              /\ loops' = [loops EXCEPT ![FreshLoop] = "initial"]
    /\ stopRequested' = FALSE
    /\ UNCHANGED <<now, dbVars, pc, loc, histVars, failed>>

\* start_scheduler_thread when Thread.start() raises: the flag is reset and
\* the remembered thread object never ran
StartSchedulerThreadFails ==
    /\ HasFresh
    /\ ~(scheduler_running /\ scheduler_thread # 0 /\ Alive(scheduler_thread))
    /\ scheduler_running' = FALSE
    /\ scheduler_thread' = FreshLoop
    /\ stopRequested' = FALSE
    /\ UNCHANGED <<now, dbVars, pc, loc, histVars, failed, loops>>

\* stop_scheduler
StopScheduler ==
    /\ scheduler_running' = FALSE
    /\ stopRequested' = TRUE
    /\ UNCHANGED <<now, dbVars, pc, loc, histVars, failed, scheduler_thread, loops>>

\* config/asgi.py: a daemon thread that calls run_scheduler itself
RunSchedulerDirect ==
    /\ HasFresh
    /\ loops' = [loops EXCEPT ![FreshLoop] = "initial"]
    /\ UNCHANGED <<now, dbVars, pc, loc, histVars, failed,
                   scheduler_running, scheduler_thread, stopRequested>>

\* run_scheduler: the initial pass, made whatever the flag says
LoopInitialPass(t) ==
    /\ loops[t] = "initial"
    /\ loops' = [loops EXCEPT ![t] = "while"]
    /\ UNCHANGED <<now, dbVars, pc, loc, histVars, failed,
                   scheduler_running, scheduler_thread, stopRequested>>

\* run_scheduler: `while _scheduler_running`
LoopWhile(t) ==
    /\ loops[t] = "while"
    /\ loops' = [loops EXCEPT ![t] = IF scheduler_running THEN "sleep" ELSE "finally"]
    /\ UNCHANGED <<now, dbVars, pc, loc, histVars, failed,
                   scheduler_running, scheduler_thread, stopRequested>>

\* variant: no second look at the flag after the sleep
LoopWakeNoRecheck(t) ==
    /\ loops[t] = "sleep"
    /\ loops' = [loops EXCEPT ![t] = "pass"]
    /\ UNCHANGED <<now, dbVars, pc, loc, histVars, failed,
                   scheduler_running, scheduler_thread, stopRequested>>

\* run_scheduler: time.sleep returns, `if _scheduler_running`
LoopWake(t) ==
    /\ loops[t] = "sleep"
    /\ loops' = [loops EXCEPT ![t] = IF scheduler_running THEN "pass" ELSE "while"]
    /\ UNCHANGED <<now, dbVars, pc, loc, histVars, failed,
                   scheduler_running, scheduler_thread, stopRequested>>

\* run_scheduler: auto_end_expired_sessions() of the periodic check returns
LoopPass(t) ==
    /\ loops[t] = "pass"
    /\ loops' = [loops EXCEPT ![t] = "while"]
    /\ UNCHANGED <<now, dbVars, pc, loc, histVars, failed,
                   scheduler_running, scheduler_thread, stopRequested>>

\* run_scheduler: `finally: _scheduler_running = False`
LoopFinally(t) ==
    /\ loops[t] = "finally"
    /\ loops' = [loops EXCEPT ![t] = "done"]
    /\ scheduler_running' = FALSE
    /\ UNCHANGED <<now, dbVars, pc, loc, histVars, failed,
                   scheduler_thread, stopRequested>>

LoopStep(t) ==
    \/ LoopInitialPass(t)
    \/ LoopWhile(t)
    \/ LoopWake(t)
    \/ LoopPass(t)
    \/ LoopFinally(t)

\* the module as imported: _scheduler_thread = None, _scheduler_running = False
InitThreads ==
    /\ now = 0
    /\ sessions = [s \in Sessions |-> NewSession(s, 0)]
    /\ attendances = {}
    /\ tokens = <<>>
    /\ pc = [p \in Procs |-> IF p = Scheduler THEN "s_sleep" ELSE "idle"]
    /\ loc = [p \in Procs |-> Idle]
    /\ transitions = [s \in Sessions |-> 0]
    /\ backfills = [s \in Sessions |-> 0]
    /\ notified = [s \in Sessions |-> 0]
    /\ verifiedOk = <<>>
    /\ scheduler_running = FALSE
    /\ scheduler_thread = 0
    /\ loops = [t \in Loops |-> "none"]
    /\ stopRequested = FALSE
    /\ failed = {}

NextThreads ==
    \/ StartSchedulerThread
    \/ StartSchedulerThreadFails
    \/ StopScheduler
    \/ RunSchedulerDirect
    \/ \E t \in Loops : LoopStep(t)
SpecThreads == InitThreads /\ [][NextThreads]_vars
SpecThreadsFair == SpecThreads /\ \A t \in Loops : WF_vars(LoopStep(t))

\* ------------------------------------------------------ a pass of two sessions
\* two sessions of two courses, started together, s1 enrolled in both
InitBatch ==
    /\ now = 0
    /\ sessions = [s \in Sessions \cup {OtherSession} |-> NewSession(s, 0)]
    /\ attendances = {}
    /\ tokens = <<>>
    /\ pc = [p \in Procs |-> IF p = Scheduler THEN "s_sleep" ELSE "idle"]
    /\ loc = [p \in Procs |-> Idle]
    /\ SchedulerStarted
    /\ transitions = [s \in Sessions \cup {OtherSession} |-> 0]
    /\ backfills = [s \in Sessions \cup {OtherSession} |-> 0]
    /\ notified = [s \in Sessions \cup {OtherSession} |-> 0]
    /\ verifiedOk = <<>>

SchedulerRun == SchedulerStep \/ SchedEndFails \/ SchedNotifyFails

\* scheduler passes with failures, and the teacher's end request of session 1
NextBatch == Tick \/ Returns \/ EndOps \/ SchedulerRun
SpecBatch == InitBatch /\ [][NextBatch]_vars
SpecBatchFair == SpecBatch /\ WF_vars(SchedulerRun)

\* ================================================================== claims
EveryoneRecorded(s) ==
    \A i \in 1..Len(EnrolledSeq(s)) : HasRow(attendances, s, EnrolledSeq(s)[i])

\* C1: when two end calls race on one active session (two manual ends, or a
\* manual end and a scheduler pass), only one of them saves the transition
\* active -> ended and the absence backfill runs once for the session.
C1_OneTransitionOneBackfill ==
    \A s \in Sessions : transitions[s] <= 1 /\ backfills[s] <= 1

\* C5: with the scheduler running, a session that is active at a time
\* now >= started_at + scheduled_duration is eventually ended, and every
\* enrolled student then has a record (present, or backfilled absent).
C5_DueSessionsAreEnded ==
    \A s \in Sessions :
        (/\ sessions[s].status = "active"
         /\ now >= sessions[s].started_at + sessions[s].scheduled_duration)
            ~> (sessions[s].status = "ended" /\ EveryoneRecorded(s))

\* a scheduler pass has ended a due session, backfilled an absence and notified
C5_Witness ==
    \E s \in Sessions :
        /\ notified[s] = 1
        /\ sessions[s].status = "ended"
        /\ now >= sessions[s].started_at + sessions[s].scheduled_duration
        /\ \E r \in attendances : r.session = s /\ ~r.is_present /\ r.status = "absent"

\* C9: once a session's status is ended or cancelled, no step changes it.
C9_TerminalStatusIsFinal ==
    [][\A s \in Sessions :
          sessions[s].status # "active" => sessions'[s].status = sessions[s].status]_vars

\* an end call working from a snapshot read while the session was active has
\* saved over a session that was already ended
C9_Witness ==
    \E s \in Sessions : sessions[s].status = "ended" /\ transitions[s] >= 2

\* C10: ended_at is written once: no step changes an ended_at that is set.
C10_EndedAtWrittenOnce ==
    [][\A s \in Sessions :
          sessions[s].ended_at # Null => sessions'[s].ended_at = sessions[s].ended_at]_vars

\* C2: in every reachable state there is at most one attendance row per
\* (session, student), whatever the interleaving of location marks, token
\* marks and the backfill of the session close.
C2_OneRowPerStudent ==
    \A r1 \in attendances, r2 \in attendances :
        (r1.session = r2.session /\ r1.student = r2.student) => r1 = r2

\* a handler whose SELECT found no row is about to INSERT while another
\* handler has meanwhile inserted the row for the same (session, student)
C2_Witness ==
    \E p \in Workers :
        /\ pc[p] \in {"m_create", "q_create"}
        /\ HasRow(attendances, loc[p].sid, loc[p].student)

\* C3: for a token with max_uses = m > 0 at most m verifications succeed.
C3_AtMostMaxUses ==
    \A tid \in 1..Len(tokens) :
        tokens[tid].max_uses > 0 => verifiedOk[tid] <= tokens[tid].max_uses

\* C4: used_count equals the number of verifications that have succeeded.
C4_UsedCountIsExact ==
    \A tid \in 1..Len(tokens) : tokens[tid].used_count = verifiedOk[tid]

\* C6: when an end request has been answered, every token of the session it
\* ended is inactive.
C6_TokensRevokedOnEnd ==
    \A p \in Workers :
        pc[p] = "resp_ended" =>
            \A tid \in 1..Len(tokens) :
                tokens[tid].session = loc[p].sid => ~tokens[tid].is_active

\* the row is not the intermediate write of a location mark that failed the
\* geofence and is about to be stored absent by its own handler
Settled(r) ==
    ~\E q \in Workers : pc[q] = "m_final" /\ loc[q].att.id = r.id /\ ~loc[q].verified

\* C7: the save of the backfill never turns a row that is stored as present
\* into an absent one.
C7_BackfillKeepsPresent ==
    [][\A p \in Procs :
          (pc[p] = "bf_save" /\ pc'[p] # "bf_save") =>
              \A r \in attendances :
                  (r.id = loc[p].att.id /\ r.is_present /\ Settled(r)) =>
                      \E r2 \in attendances' : r2.id = r.id /\ r2.is_present]_vars

\* C8: of the location marks inside the radius that run concurrently for one
\* (session, student), only one is answered "marked" with a present record.
C8_OnePresentAnswer ==
    \A p \in Workers, q \in Workers :
        (/\ p # q
         /\ pc[p] = "resp_marked" /\ pc[q] = "resp_marked"
         /\ loc[p].op = "mark" /\ loc[q].op = "mark"
         /\ loc[p].sid = loc[q].sid /\ loc[p].student = loc[q].student
         /\ loc[p].att.is_present)
        => ~loc[q].att.is_present

\* C11: in every reachable state a session's ended_at is set if and only if
\* its status is ended or cancelled.
C11_EndedAtIffTerminal ==
    \A s \in Sessions :
        (sessions[s].ended_at # Null) <=> (sessions[s].status \in {"ended", "cancelled"})

\* C19: no token is issued for a session that is not active: an issue or a
\* refresh request that finds the session ended or cancelled is not accepted
\* and goes on to create no token row.
C19_IssueOnlyWhenActive ==
    [][\A p \in Workers :
          (pc[p] = "idle" /\ pc'[p] \in {"i_create", "r_deact"}) =>
              sessions[loc'[p].sid].status = "active"]_vars

\* C12: verify(secret) gets past the validity check, and so returns the
\* payload, if and only if a stored token matches the secret and that token
\* is active, now <= expires_at, and max_uses = 0 or used_count < max_uses.
C12_VerifyIffValid ==
    [][\A p \in Workers :
          (pc[p] = "idle" /\ loc'[p].op = "qr") =>
              LET tid == loc'[p].tid IN
              (pc'[p] = "q_used") <=>
                  (/\ tid # 0
                   /\ tokens[tid].is_active
                   /\ now <= tokens[tid].expires_at
                   /\ (tokens[tid].max_uses = 0
                        \/ tokens[tid].used_count < tokens[tid].max_uses))]_vars

\* a verification was refused after expires_at although the token is active
\* and its use cap is not reached
C12_Witness ==
    \E p \in Workers :
        /\ pc[p] = "resp_InvalidToken"
        /\ loc[p].op = "qr"
        /\ loc[p].tid # 0
        /\ tokens[loc[p].tid].is_active
        /\ now > tokens[loc[p].tid].expires_at
        /\ tokens[loc[p].tid].max_uses > 0
        /\ tokens[loc[p].tid].used_count < tokens[loc[p].tid].max_uses

\* C13: in every reachable state, also between the two writes of one request,
\* a record written by a location mark is present (is_present and status
\* present) only if its stored location_verified is true.
C13_PresentOnlyIfVerified ==
    \A r \in attendances :
        (r.is_present /\ r.status = "present") => r.location_verified

\* C14: a token mark that is answered "marked" leaves the student's record
\* stored present (is_present, status present, marked now), whether or not
\* coordinates came with it and whether or not they lie inside the radius.
C14_TokenMarkIsPresent ==
    [][\A p \in Workers :
          (loc[p].op = "qr" /\ pc[p] # "resp_marked" /\ pc'[p] = "resp_marked") =>
              \E r \in attendances' :
                  /\ r.session = loc[p].sid /\ r.student = loc[p].student
                  /\ r.is_present /\ r.status = "present" /\ r.marked_at = now
                  /\ loc'[p].att = r]_vars

\* a token mark with coordinates outside the radius has updated an existing
\* record and has been answered: present, location not verified
C14_Witness ==
    \E p \in Workers :
        /\ pc[p] = "resp_marked" /\ loc[p].op = "qr"
        /\ ~loc[p].created
        /\ loc[p].lat # 0 /\ loc[p].lon # 0
        /\ calculate_distance(ClassroomLat(loc[p].sid), ClassroomLon(loc[p].sid),
                              loc[p].lat, loc[p].lon) > AllowedRadius
        /\ loc[p].att.is_present /\ ~loc[p].att.location_verified

NoMarkInFlight ==
    \A q \in Workers :
        pc[q] \notin {"m_get", "m_create", "m_mark", "m_final",
                      "q_used", "q_load", "q_get", "q_create", "q_update"}

\* C16: when an end request has completed (and no marking request is in
\* flight), every enrolled student has exactly one record for the session,
\* and every record that is not present is absent with marked_at null.
C16_EndLeavesCompleteLedger ==
    \A p \in Workers :
        (pc[p] = "resp_ended" /\ NoMarkInFlight) =>
            /\ \A i \in 1..Len(EnrolledSeq(loc[p].sid)) :
                  Cardinality({r \in attendances :
                                  /\ r.session = loc[p].sid
                                  /\ r.student = EnrolledSeq(loc[p].sid)[i]}) = 1
            /\ \A r \in attendances :
                  (r.session = loc[p].sid /\ ~r.is_present) =>
                      (r.status = "absent" /\ r.marked_at = Null)

\* C17: a marking attempt, by location or by token, that has read the
\* student's record as present while it is stored present is rejected with
\* AlreadyMarked and leaves the attendance table as it is.
C17_PresentIsFinal ==
    [][\A p \in Workers :
          (/\ pc[p] \in {"m_mark", "q_update"} /\ pc'[p] # pc[p]
           /\ loc[p].att.is_present
           /\ \E r \in attendances : r = loc[p].att /\ Settled(r))
          => (pc'[p] = "resp_AlreadyMarked" /\ attendances' = attendances)]_vars

\* the step answers a marking request with NotActive or NotEnrolled
RejectStep(p) ==
    /\ pc[p] \in {"idle", "q_load"}
    /\ pc'[p] \in {"resp_NotActive", "resp_NotEnrolled"}
    /\ loc'[p].op \in {"mark", "qr"}

\* the step belongs to a token mark that is going to be rejected: the token
\* has been accepted, the session and enrolment checks are still to come,
\* and the student is not enrolled or the session is already closed
DoomedStep(p) ==
    /\ pc[p] = "q_used" /\ pc'[p] # pc[p]
    /\ \/ ~IsEnrolled(loc[p].student, loc[p].tok.session)
       \/ sessions[loc[p].tok.session].status # "active"

\* C18: no step of a marking request that is rejected as NotActive or
\* NotEnrolled, by location or by token, changes session, attendance or
\* token state, the used_count of the presented token included.
C18_RejectedMarkChangesNothing ==
    [][\A p \in Workers : (RejectStep(p) \/ DoomedStep(p)) => dbVars' = dbVars]_vars

\* C20: a step of the scheduler changes a session row only to status ended
\* and only at a time now >= started_at + scheduled_duration; it never
\* writes cancelled.
C20_SchedulerEndsOnlyDue ==
    [][(pc'[Scheduler] # pc[Scheduler] \/ loc'[Scheduler] # loc[Scheduler]) =>
          \A s \in Sessions :
              sessions'[s] # sessions[s] =>
                  /\ sessions'[s].status = "ended"
                  /\ now >= sessions[s].started_at + sessions[s].scheduled_duration]_vars

\* the scheduler has just saved the transition of a session and is about to
\* run the backfill
C20_Witness ==
    /\ pc[Scheduler] = "bf_get"
    /\ loc[Scheduler].sid \in Sessions
    /\ sessions[loc[Scheduler].sid].status = "ended"
    /\ sessions[loc[Scheduler].sid].ended_at = now
    /\ transitions[loc[Scheduler].sid] = 1

\* C21: in every reachable state every attendance record with is_present
\* true has a marked_at that is set.
C21_PresentHasMarkedAt ==
    \A r \in attendances : r.is_present => r.marked_at # Null

\* a present, time-stamped record of a session that has been closed
C21_Witness ==
    \E r \in attendances :
        /\ r.is_present /\ r.marked_at # Null
        /\ sessions[r.session].status = "ended"
        /\ backfills[r.session] >= 1

\* C30: in every reachable state every attendance record has status present
\* if and only if is_present is true, and no record has status late.
C30_StatusMatchesFlag ==
    \A r \in attendances :
        /\ (r.status = "present") <=> r.is_present
        /\ r.status # "late"

\* a location mark that failed the geofence has been stored: absent, not
\* present, with the time of the attempt
C30_Witness ==
    \E r \in attendances, p \in Workers :
        /\ pc[p] = "resp_marked" /\ loc[p].op = "mark" /\ loc[p].att = r
        /\ ~loc[p].verified
        /\ r.status = "absent" /\ ~r.is_present /\ r.marked_at # Null

\* C23: once a session has ended and every request and the scheduler pass
\* have finished, exactly one session_ended fan-out has been sent for it.
C23_OneFanOutPerEnd ==
    \A s \in Sessions :
        (/\ sessions[s].status = "ended"
         /\ pc[Scheduler] = "s_sleep"
         /\ \A p \in Workers : pc[p] = "idle")
        => notified[s] = 1

\* C24: no attendance record becomes present in a step taken while the
\* status of its session is no longer active.
C24_NoPresentAfterEnd ==
    [][\A r2 \in attendances' :
          (r2.is_present /\ sessions[r2.session].status # "active") =>
              \E r \in attendances : r.id = r2.id /\ r.is_present]_vars

\* C27: when refresh(session, oldSecret) has returned, the token of oldSecret
\* is inactive and the new token is active and uncapped; an inactive token
\* stays inactive; a verification of an inactive token fails and one of an
\* active, uncapped, unexpired token succeeds.
C27_RefreshRotates ==
    /\ [](\A p \in Workers :
             (pc[p] = "resp_issued" /\ loc[p].op = "refresh") =>
                 /\ loc[p].tok # NoRow => ~tokens[loc[p].tok.id].is_active
                 /\ tokens[loc[p].tid].is_active
                 /\ tokens[loc[p].tid].max_uses = 0)
    /\ [][\A tid \in 1..Len(tokens) :
             ~tokens[tid].is_active => ~tokens'[tid].is_active]_vars
    /\ [][\A p \in Workers :
             (pc[p] = "idle" /\ loc'[p].op = "qr" /\ loc'[p].tid # 0) =>
                 LET t == tokens[loc'[p].tid] IN
                 /\ ~t.is_active => pc'[p] = "resp_InvalidToken"
                 /\ (t.is_active /\ now <= t.expires_at /\ t.max_uses = 0)
                        => pc'[p] = "q_used"]_vars

\* a refresh that named the old token has returned, and a verification of
\* the old token, uncapped and not yet expired, has been refused
C27_Witness ==
    \E p \in Workers, q \in Workers :
        /\ pc[p] = "resp_issued" /\ loc[p].op = "refresh" /\ loc[p].tok # NoRow
        /\ pc[q] = "resp_InvalidToken" /\ loc[q].tid = loc[p].tok.id
        /\ tokens[loc[q].tid].max_uses = 0
        /\ now <= tokens[loc[q].tid].expires_at

\* C29: a refresh of one session changes is_active only of tokens that
\* belong to that session.
C29_RefreshStaysInSession ==
    [][\A p \in Workers, tid \in 1..Len(tokens) :
          (/\ pc[p] = "r_deact" /\ pc'[p] # pc[p]
           /\ tokens'[tid].is_active # tokens[tid].is_active)
          => tokens[tid].session = loc[p].sid]_vars

\* C25: when ending one session fails inside a pass, the pass goes on with
\* the sessions still queued; at the end of a pass every session that is
\* still active and was due is one whose end failed; and the scheduler
\* always comes back to its sleep, from where the next pass starts.
C25_FailureKeepsBatch ==
    /\ [][(pc[Scheduler] \in EndPcs /\ pc'[Scheduler] \notin EndPcs \cup {"s_notify"})
            => /\ pc'[Scheduler] = "s_iter"
               /\ loc'[Scheduler].queue = loc[Scheduler].queue
               /\ loc'[Scheduler].cur_time = loc[Scheduler].cur_time]_vars
    /\ [][(pc[Scheduler] = "s_iter" /\ pc'[Scheduler] = "s_sleep")
            => \A s \in DOMAIN sessions :
                  (/\ sessions[s].status = "active"
                   /\ IsDue(sessions[s], loc[Scheduler].cur_time))
                  => s \in failed]_vars
    /\ []<>(pc[Scheduler] = "s_sleep")

\* the end of session 1 failed, session 2 of the same pass was ended
C25_Witness ==
    /\ failed = {1}
    /\ sessions[1].status = "active"
    /\ sessions[OtherSession].status = "ended"
    /\ transitions[OtherSession] = 1
    /\ pc[Scheduler] = "s_sleep"

\* C26: a failed notification leaves the session ended and its absence rows
\* stored, and the pass goes on with the sessions still queued.
C26_NotifyFailureSwallowed ==
    [][(/\ pc[Scheduler] = "s_notify" /\ pc'[Scheduler] # "s_notify"
        /\ notified' = notified)
       => LET s == loc[Scheduler].sid IN
          /\ sessions'[s].status = "ended"
          /\ \A i \in 1..Len(EnrolledSeq(s)) :
                HasRow(attendances', s, EnrolledSeq(s)[i])
          /\ sessions' = sessions /\ attendances' = attendances
          /\ pc'[Scheduler] = "s_iter"
          /\ loc'[Scheduler].queue = loc[Scheduler].queue]_vars

\* the scheduler ended session 1, its notification failed, session 2 is next
C26_Witness ==
    /\ pc[Scheduler] = "s_iter"
    /\ Len(loc[Scheduler].queue) = 1
    /\ IsDue(sessions[1], loc[Scheduler].cur_time)
    /\ sessions[1].status = "ended"
    /\ transitions[1] = 1
    /\ pc["w1"] = "idle" /\ pc["w2"] = "idle"
    /\ notified[1] = 0
    /\ 1 \notin failed

\* C22: at most one thread is inside run_scheduler at any time.
C22_OneLoop == Cardinality({t \in Loops : Alive(t)}) <= 1

\* C28: while a stop is in force every loop comes to its end, no loop goes
\* from a look at the flag into a pass, and a loop that has ended stays ended.
C28_StopEndsLoop ==
    /\ \A t \in Loops :
          (stopRequested /\ Alive(t)) ~> (~Alive(t) \/ ~stopRequested)
    /\ [][\A t \in Loops :
            /\ (stopRequested /\ loops[t] # "pass") => loops'[t] # "pass"
            /\ loops[t] = "done" => loops'[t] = "done"]_vars

\* stop was called after a start, and the loop of that start has returned
C28_Witness ==
    /\ stopRequested
    /\ scheduler_thread # 0
    /\ loops[scheduler_thread] = "done"
====
